---- MODULE Spec2Model ----
(***************************************************************************)
(* Model of ggez's graphics/image.rs: the Image texture resource, its      *)
(* constructors (new, from_rgba8, make_raw, solid), the readback path      *)
(* (to_rgba8), the sampler / blend-mode mutators and the draw path         *)
(* (Drawable::draw_ex).                                                    *)
(*                                                                         *)
(* Conventions.                                                            *)
(*  - A byte slice &[u8] is a length and its contents (Rust's fat          *)
(*    pointer): operators that receive a slice take rgba_len and rgba.     *)
(*  - A GameResult is a record [status, err, ...]; status is "Ok" or       *)
(*    "Err".                                                               *)
(*  - Every operation records the collaborator calls it issued, in order,  *)
(*    in the variable calls, and its name, receiver, arguments and result  *)
(*    in the variable ret.                                                 *)
(*  - The backend (gfx factory, encoder, render context) may fail at any   *)
(*    fallible call; which call fails is an input of the action.           *)
(***************************************************************************)
EXTENDS Integers, Sequences, FiniteSets, TLC

VARIABLES
    images,     \* the Image values held by the program, by slot
    factory,    \* textures allocated by gfx_context.factory, by handle
    gfx,        \* ctx.gfx_context: the render context
    ret,        \* name, receiver, arguments and result of the last call
    calls       \* the backend calls issued by the last call, in order

vars == <<images, factory, gfx, ret, calls>>

---------------------------------------------------------------------------
(* Bounds *)

MaxDim == 2        \* largest width / height / size given to a constructor
MaxImages == 2     \* number of Image values the program holds
MaxWrap == 1       \* decoded sizes go up to MaxWrap * 65536 + MaxDim

(* Program constants *)

U16 == 65536       \* `as u16` keeps the value modulo 2^16

---------------------------------------------------------------------------
(* Value domains *)

Slots == 1..MaxImages
Dims == 0..MaxDim
MaxBytes == MaxDim * MaxDim * 4

FilterModes == {"Linear", "Nearest"}
WrapPairs == {<<"Clamp", "Clamp">>, <<"Tile", "Mirror">>}
BlendModes == {"Alpha", "Add"}
None == "None"

Colors == {<<255, 0, 0, 255>>, <<1, 2, 3, 4>>}
JunkTexels == {<<0, 0, 0, 0>>, <<205, 205, 205, 205>>}

Ramp(n) == [i \in 1..n |-> (i - 1) % 256]
Fill(n) == [i \in 1..n |-> 99]
(* Buffers one byte short of, exactly at and one byte past each width*height*4 *)
Lengths == {n \in 0..(MaxBytes + 1) : \E w \in Dims, h \in Dims : n - w * h * 4 \in {-1, 0, 1}}
Buffers == {Ramp(n) : n \in Lengths} \cup {Fill(w * h * 4) : w \in Dims, h \in Dims}

default_sampler_info == [filter |-> "Linear", wrap_mode |-> <<"Clamp", "Clamp">>]

NoImage ==
    [texture |-> 0, texture_handle |-> 0, sampler_info |-> default_sampler_info,
     blend_mode |-> None, width |-> 0, height |-> 0]

NoErr == [kind |-> "None", msg |-> [fmt |-> "", args |-> <<>>]]

ResourceLoadError(msg) == [kind |-> "ResourceLoadError", msg |-> msg]

BackendError(what) == [kind |-> "BackendError", msg |-> [fmt |-> what, args |-> <<>>]]

(* One backend call: its name, its argument and whether it succeeded *)
Call(fn, arg, ok) == [fn |-> fn, arg |-> arg, ok |-> ok]

CallNames(cs) == [k \in 1..Len(cs) |-> cs[k].fn]

---------------------------------------------------------------------------
(* Texture construction *)

expected_bytes(width, height) == width * height * 4

ZeroSizeMsg(width, height) ==
    [fmt |-> "Tried to create a texture of size {}x{}, each dimension must be >0",
     args |-> <<width, height>>]

ByteCountMsg(width, height, given, expected) ==
    [fmt |-> "Tried to create a texture of size {}x{}, but gave {} bytes of data (expected {})",
     args |-> <<width, height, given, expected>>]

(* factory.create_texture_immutable_u8::<Srgba8>(D2(width, height), &[rgba]): *)
(* on success the new texture holds the width*height texels of rgba.        *)
create_texture_immutable_u8(fac, width, height, rgba, alloc_ok) ==
    IF alloc_ok
    THEN [ok |-> TRUE,
          factory |-> Append(fac, [width |-> width, height |-> height,
                                   data |-> [k \in 1..(width * height * 4) |-> rgba[k]]]),
          handle |-> Len(fac) + 1]
    ELSE [ok |-> FALSE, factory |-> fac, handle |-> 0]

zero_size_both(width, height) == width = 0 /\ height = 0

zero_size(width, height) == width = 0 \/ height = 0

byte_count_too_small(expected, given) == expected > given

byte_count_mismatch_u16(expected, given) == expected % U16 # given % U16

byte_count_mismatch(expected, given) == expected # given

make_raw(fac, sampler_info, width, height, rgba_len, rgba, alloc_ok) ==
    IF zero_size(width, height)
    THEN [status |-> "Err", err |-> ResourceLoadError(ZeroSizeMsg(width, height)),
          image |-> NoImage, factory |-> fac, calls |-> <<>>]
    ELSE IF byte_count_mismatch(expected_bytes(width, height), rgba_len)
    THEN [status |-> "Err",
          err |-> ResourceLoadError(ByteCountMsg(width, height, rgba_len,
                                                 expected_bytes(width, height))),
          image |-> NoImage, factory |-> fac, calls |-> <<>>]
    ELSE LET created == create_texture_immutable_u8(fac, width, height, rgba, alloc_ok)
             log == <<Call("create_texture_immutable_u8", <<width, height>>, created.ok)>>
         IN  IF ~created.ok
             THEN [status |-> "Err", err |-> BackendError("create_texture_immutable_u8"),
                   image |-> NoImage, factory |-> fac, calls |-> log]
             ELSE [status |-> "Ok", err |-> NoErr,
                   image |-> [texture |-> created.handle,
                              texture_handle |-> created.handle,
                              sampler_info |-> sampler_info,
                              blend_mode |-> None,
                              width |-> width,
                              height |-> height],
                   factory |-> created.factory, calls |-> log]

from_rgba8(ctx, fac, width, height, rgba_len, rgba, alloc_ok) ==
    make_raw(fac, ctx.default_sampler_info, width, height, rgba_len, rgba, alloc_ok)

---------------------------------------------------------------------------
(* The constructors are followed up to the program's first Image, which is *)
(* kept in the first slot.                                                 *)

HasFree == \A s \in Slots : images[s] = NoImage
FreeSlot == CHOOSE s \in Slots : images[s] = NoImage /\ \A t \in Slots : t < s => images[t] # NoImage

(* The common tail of the three constructors: keep the Image, record the result *)
Construct(op, args, r) ==
    /\ images' = IF r.status = "Ok" THEN [images EXCEPT ![FreeSlot] = r.image] ELSE images
    /\ factory' = r.factory
    /\ calls' = r.calls
    /\ ret' = [op |-> op, self |-> FreeSlot, args |-> args,
               status |-> r.status, err |-> r.err, data |-> <<>>]
    /\ UNCHANGED gfx

FromRgba8 ==
    /\ HasFree
    /\ \E width \in Dims, height \in Dims, rgba \in Buffers, alloc_ok \in BOOLEAN :
         Construct("from_rgba8",
                   [width |-> width, height |-> height, len |-> Len(rgba)],
                   from_rgba8(gfx, factory, width, height, Len(rgba), rgba, alloc_ok))


(* solid: the loop of lines 200-202, one pixel_array appended per iteration *)
RECURSIVE solid_loop(_, _, _), solid_loop_short(_, _, _)
solid_loop_short(buffer, pixel_array, remaining) ==
    IF remaining <= 1 THEN buffer
    ELSE solid_loop_short(buffer \o pixel_array, pixel_array, remaining - 1)

solid_loop(buffer, pixel_array, remaining) ==
    IF remaining = 0 THEN buffer
    ELSE solid_loop(buffer \o pixel_array, pixel_array, remaining - 1)

solid(ctx, fac, size, color, alloc_ok) ==
    LET pixel_array == <<color[1], color[2], color[3], color[4]>>
        size_squared == size * size
        buffer == solid_loop(<<>>, pixel_array, size_squared)
    IN  from_rgba8(ctx, fac, size, size, Len(buffer), buffer, alloc_ok)

Solid ==
    /\ HasFree
    /\ \E size \in Dims, color \in Colors, alloc_ok \in BOOLEAN :
         Construct("solid", [size |-> size, color |-> color],
                   solid(gfx, factory, size, color, alloc_ok))

(* `as u16` *)
as_u16(x) == x % U16

(* The decoded RgbaImage: dimensions (W, H) and a container of W*H*4 bytes *)
DecodedSizes == {k * U16 + r : k \in 0..MaxWrap, r \in Dims}
DecodedBuffer(W, H) == Ramp(W * H * 4)
LoadOutcomes == {"ok", "open", "read_to_end", "load_from_memory"}

new(ctx, fac, outcome, W, H, alloc_ok) ==
    IF outcome # "ok"
    THEN [status |-> "Err",
          err |-> [kind |-> IF outcome = "load_from_memory" THEN "ImageError" ELSE "IOError",
                   msg |-> [fmt |-> outcome, args |-> <<>>]],
          image |-> NoImage, factory |-> fac, calls |-> <<>>]
    ELSE from_rgba8(ctx, fac, as_u16(W), as_u16(H), W * H * 4, DecodedBuffer(W, H), alloc_ok)

(* TLC's integers are 32 bits wide: at most one decoded dimension is taken *)
(* above 65535, so that W*H*4 is computed exactly.                        *)
New ==
    /\ HasFree
    /\ \/ \E outcome \in LoadOutcomes \ {"ok"} :
            Construct("new", [width |-> 0, height |-> 0, outcome |-> outcome],
                      new(gfx, factory, outcome, 0, 0, TRUE))
       \/ \E W \in DecodedSizes, H \in DecodedSizes, alloc_ok \in BOOLEAN :
            /\ W < U16 \/ H < U16
            /\ Construct("new", [width |-> W, height |-> H, outcome |-> "ok"],
                         new(gfx, factory, "ok", W, H, alloc_ok))

---------------------------------------------------------------------------
(* Readback *)

(* The texels of a byte buffer, four bytes each *)
Texels(data) == [k \in 1..(Len(data) \div 4) |-> SubSeq(data, 4 * k - 3, 4 * k)]

(* copy_texture_to_buffer_raw into the mapped download buffer: the image's  *)
(* rows, each of the image's width, bottom row first, from offset 0; the    *)
(* texels of the buffer that the copy does not write keep what the          *)
(* allocation left there (junk).                                            *)
Download(tex, width, height, size, junk) ==
    LET src == Texels(tex.data)
    IN  [k \in 1..size |->
           IF k <= width * height
           THEN LET row == (k - 1) \div width
                    col == (k - 1) % width
                IN  src[(height - 1 - row) * width + col + 1]
           ELSE junk]

(* reader.chunks(w): consecutive pieces of w texels, the last one shorter *)
chunks(reader, w) ==
    [j \in 1..((Len(reader) + w - 1) \div w) |->
        SubSeq(reader, (j - 1) * w + 1, IF j * w < Len(reader) THEN j * w ELSE Len(reader))]

rev(s) == [j \in 1..Len(s) |-> s[Len(s) + 1 - j]]

(* The two loops of lines 120-124 *)
RECURSIVE extend_row(_, _, _)
extend_row(data, row, k) ==
    IF k > Len(row) THEN data ELSE extend_row(data \o row[k], row, k + 1)

RECURSIVE extend_rows(_, _, _)
extend_rows(data, rows, j) ==
    IF j > Len(rows) THEN data ELSE extend_rows(extend_row(data, rows[j], 1), rows, j + 1)

ReadbackFails == {"none", "create_download_buffer", "copy_texture_to_buffer_raw", "read_mapping"}

to_rgba8(self, ctx, fac, fail, junk) ==
    LET w == ctx.out[1]
        h == ctx.out[2]
        fits == self.width * self.height <= w * h
        c1 == <<Call("create_download_buffer", w * h, fail # "create_download_buffer")>>
        c2 == Append(c1, Call("copy_texture_to_buffer_raw", <<self.width, self.height>>,
                              fail # "copy_texture_to_buffer_raw" /\ fits))
        c3 == Append(c2, Call("read_mapping", w * h, fail # "read_mapping"))
    IN  IF fail = "create_download_buffer"
        THEN [status |-> "Err", err |-> BackendError("create_download_buffer"),
              data |-> <<>>, calls |-> c1]
        ELSE IF fail = "copy_texture_to_buffer_raw" \/ ~fits
        THEN [status |-> "Err", err |-> BackendError("copy_texture_to_buffer_raw"),
              data |-> <<>>, calls |-> c2]
        ELSE IF fail = "read_mapping"
        THEN [status |-> "Err", err |-> BackendError("read_mapping"),
              data |-> <<>>, calls |-> c3]
        ELSE LET reader == Download(fac[self.texture_handle], self.width, self.height, w * h, junk)
             IN  [status |-> "Ok", err |-> NoErr,
                  data |-> extend_rows(<<>>, rev(chunks(reader, w)), 1),
                  calls |-> c3]

ToRgba8 ==
    \E i \in Slots, fail \in ReadbackFails, junk \in JunkTexels :
        /\ images[i] # NoImage
        /\ LET r == to_rgba8(images[i], gfx, factory, fail, junk)
           IN  /\ ret' = [op |-> "to_rgba8", self |-> i, args |-> <<>>,
                          status |-> r.status, err |-> r.err, data |-> r.data]
               /\ calls' = r.calls
        /\ UNCHANGED <<images, factory, gfx>>

---------------------------------------------------------------------------
(* Sampler / blend-mode mutators and Clone *)

set_filter_rebuild(self, mode) ==
    [self EXCEPT !.sampler_info = [filter |-> mode, wrap_mode |-> default_sampler_info.wrap_mode]]

set_filter(self, mode) == [self EXCEPT !.sampler_info.filter = mode]

set_wrap(self, wrap_x, wrap_y) == [self EXCEPT !.sampler_info.wrap_mode = <<wrap_x, wrap_y>>]

set_blend_mode(self, mode) == [self EXCEPT !.blend_mode = mode]

clone(self) == self

Mutate(op, i, image) ==
    /\ images' = [images EXCEPT ![i] = image]
    /\ ret' = [op |-> op, self |-> i, args |-> <<>>, status |-> "Ok", err |-> NoErr, data |-> <<>>]
    /\ calls' = <<>>
    /\ UNCHANGED <<factory, gfx>>

SetFilter ==
    \E i \in Slots, mode \in FilterModes :
        images[i] # NoImage /\ Mutate("set_filter", i, set_filter(images[i], mode))

SetWrap ==
    \E i \in Slots, wrap \in WrapPairs :
        images[i] # NoImage /\ Mutate("set_wrap", i, set_wrap(images[i], wrap[1], wrap[2]))

SetBlendMode ==
    \E i \in Slots, mode \in BlendModes \cup {None} :
        images[i] # NoImage /\ Mutate("set_blend_mode", i, set_blend_mode(images[i], mode))

Clone ==
    \E i \in Slots, j \in Slots :
        /\ images[i] # NoImage
        /\ images[j] = NoImage
        /\ Mutate("clone", j, clone(images[i]))

---------------------------------------------------------------------------
(* Draw path *)

DrawParams ==
    {[src |-> [w |-> 1, h |-> 1], scale |-> [x |-> 1, y |-> 1]],
     [src |-> [w |-> 1, h |-> 2], scale |-> [x |-> 2, y |-> 1]]}

DrawFails == {"none", "update_instance_properties", "set_blend_mode", "draw", "restore"}

(* The render context's operations, as draw_ex uses them *)
update_instance_properties(ctx, new_param) == [ctx EXCEPT !.instance = <<new_param.scale.x, new_param.scale.y>>]

get_or_insert(samplers, info) == samplers \cup {info}

gfx_set_blend_mode(ctx, mode) == [ctx EXCEPT !.blend_mode = mode]

get_blend_mode(ctx) == ctx.blend_mode

DrawResult(status, what, ctx, log) ==
    [status |-> status, err |-> IF status = "Ok" THEN NoErr ELSE BackendError(what),
     gfx |-> ctx, calls |-> log]

must_switch_always(current_mode, mode) == TRUE

(* line 277: the context is switched only to a mode it is not already in *)
must_switch(current_mode, mode) == current_mode # mode

(* lines 275-290: blend-mode switch, draw call, blend-mode restore *)
draw_ex_blend(self, ctx, log, fail) ==
    LET current_mode == get_blend_mode(ctx)
        switch == self.blend_mode # None /\ must_switch(current_mode, self.blend_mode)
        c3 == IF switch
              THEN Append(log, Call("set_blend_mode", self.blend_mode, fail # "set_blend_mode"))
              ELSE log
    IN  IF switch /\ fail = "set_blend_mode"
        THEN DrawResult("Err", "set_blend_mode", ctx, c3)
        ELSE LET g4 == IF switch THEN gfx_set_blend_mode(ctx, self.blend_mode) ELSE ctx
                 previous_mode == IF switch THEN current_mode ELSE None
                 c4 == Append(c3, Call("draw", None, fail # "draw"))
             IN  IF fail = "draw"
                 THEN DrawResult("Err", "draw", g4, c4)
                 ELSE IF previous_mode # None
                 THEN LET c5 == Append(c4, Call("set_blend_mode", previous_mode, fail # "restore"))
                      IN  IF fail = "restore"
                          THEN DrawResult("Err", "set_blend_mode", g4, c5)
                          ELSE DrawResult("Ok", "", gfx_set_blend_mode(g4, previous_mode), c5)
                 ELSE DrawResult("Ok", "", g4, c4)

(* draw_ex with the sampler resolved before the instance upload *)
draw_ex_sampler_first(self, ctx, param, fail) ==
    LET real_scale == [x |-> param.src.w * param.scale.x * self.width,
                       y |-> param.src.h * param.scale.y * self.height]
        new_param == [param EXCEPT !.scale = real_scale]
        sampler == self.sampler_info
        g1 == [ctx EXCEPT !.samplers = get_or_insert(ctx.samplers, self.sampler_info)]
        c1 == <<Call("get_or_insert", self.sampler_info, TRUE)>>
        c2 == Append(c1, Call("update_instance_properties", new_param.scale,
                              fail # "update_instance_properties"))
    IN  IF fail = "update_instance_properties"
        THEN DrawResult("Err", "update_instance_properties", g1, c2)
        ELSE LET g2 == update_instance_properties(g1, new_param)
                 g3 == [g2 EXCEPT !.vbuf = "quad_vertex_buffer",
                                  !.tex = <<self.texture, sampler>>]
             IN  draw_ex_blend(self, g3, c2, fail)

(* lines 258-274: scale, instance upload, sampler, bindings; then the rest *)
draw_ex(self, ctx, param, fail) ==
    LET real_scale == [x |-> param.src.w * param.scale.x * self.width,
                       y |-> param.src.h * param.scale.y * self.height]
        new_param == [param EXCEPT !.scale = real_scale]
        c1 == <<Call("update_instance_properties", new_param.scale,
                     fail # "update_instance_properties")>>
    IN  IF fail = "update_instance_properties"
        THEN DrawResult("Err", "update_instance_properties", ctx, c1)
        ELSE LET g1 == update_instance_properties(ctx, new_param)
                 sampler == self.sampler_info
                 g2 == [g1 EXCEPT !.samplers = get_or_insert(g1.samplers, self.sampler_info)]
                 c2 == Append(c1, Call("get_or_insert", self.sampler_info, TRUE))
                 g3 == [g2 EXCEPT !.vbuf = "quad_vertex_buffer",
                                  !.tex = <<self.texture, sampler>>]
             IN  draw_ex_blend(self, g3, c2, fail)

DrawEx ==
    \E i \in Slots, param \in DrawParams, fail \in DrawFails :
        /\ images[i] # NoImage
        /\ LET r == draw_ex(images[i], gfx, param, fail)
           IN  /\ gfx' = r.gfx
               /\ calls' = r.calls
               /\ ret' = [op |-> "draw_ex", self |-> i, args |-> <<>>,
                          status |-> r.status, err |-> r.err, data |-> <<>>]
        /\ UNCHANGED <<images, factory>>

---------------------------------------------------------------------------
(* The render context after Context::load_from_conf, drawing to a target of w x h *)
NewContext(w, h, mode) ==
    [default_sampler_info |-> default_sampler_info,
     blend_mode |-> mode,
     samplers |-> {},
     vbuf |-> None,
     tex |-> <<0, None>>,
     instance |-> <<0, 0>>,
     out |-> <<w, h>>]

NoCall == [op |-> "init", self |-> 0, args |-> <<>>, status |-> "Ok", err |-> NoErr, data |-> <<>>]

Init ==
    /\ images = [s \in Slots |-> NoImage]
    /\ factory = <<>>
    /\ \E w \in 1..MaxDim, h \in 1..MaxDim : gfx = NewContext(w, h, "Alpha")
    /\ ret = NoCall
    /\ calls = <<>>

Next == FromRgba8 \/ Solid \/ New \/ ToRgba8

Spec == Init /\ [][Next]_vars

(* A context in blend mode `mode` that holds one Image, made by from_rgba8 *)
(* from one texel.                                                         *)
OneImage(mode) ==
    LET ctx == NewContext(1, 1, mode)
        r == from_rgba8(ctx, <<>>, 1, 1, 4, Ramp(4), TRUE)
    IN  /\ images = [s \in Slots |-> IF s = 1 THEN r.image ELSE NoImage]
        /\ factory = r.factory
        /\ gfx = ctx
        /\ ret = NoCall
        /\ calls = <<>>

(* The draw path starts from either blend mode *)
InitDraw == \E mode \in BlendModes : OneImage(mode)

NextDraw == SetFilter \/ SetWrap \/ SetBlendMode \/ DrawEx

SpecDraw == InitDraw /\ [][NextDraw]_vars

(* Clones of one Image and the operations on each of them *)
NextClone == Clone \/ SetFilter \/ SetWrap \/ SetBlendMode \/ ToRgba8

InitClone == OneImage("Alpha")

SpecClone == InitClone /\ [][NextClone]_vars
---------------------------------------------------------------------------
(* Properties of construction (checked under Spec) *)

(* C1: every from_rgba8 / make_raw call with width = 0 or height = 0,      *)
(* whatever the buffer (the empty one included), returns the zero-size     *)
(* ResourceLoadError and create_texture_immutable_u8 is not called: the    *)
(* factory's textures and the program's images are unchanged.              *)
C1_ZeroSizeRejected ==
    [][(ret'.op = "from_rgba8" /\ (ret'.args.width = 0 \/ ret'.args.height = 0)) =>
         /\ ret'.status = "Err"
         /\ ret'.err.kind = "ResourceLoadError"
         /\ ret'.err.msg = ZeroSizeMsg(ret'.args.width, ret'.args.height)
         /\ \A k \in 1..Len(calls') : calls'[k].fn # "create_texture_immutable_u8"
         /\ factory' = factory
         /\ images' = images]_vars

C1_Witness ==
    /\ ret.op = "from_rgba8"
    /\ ret.args.width = 0
    /\ ret.args.len = 0
    /\ ret.status = "Err"
    /\ calls = <<>>

C7_Solid ==
    [][(ret'.op = "solid") =>
         LET size == ret'.args.size
             color == ret'.args.color
             img == images'[ret'.self]
         IN  /\ (size > 0) =>
                    /\ ret'.err.kind # "ResourceLoadError"
                    /\ CallNames(calls') = <<"create_texture_immutable_u8">>
                    /\ calls'[1].arg = <<size, size>>
                    /\ (ret'.status = "Ok") =>
                          /\ img.width = size
                          /\ img.height = size
                          /\ Len(factory'[img.texture_handle].data) = size * size * 4
                          /\ \A p \in 1..(size * size) :
                                SubSeq(factory'[img.texture_handle].data, 4 * p - 3, 4 * p) = color
             /\ (size = 0) =>
                    /\ ret'.status = "Err"
                    /\ ret'.err = from_rgba8(gfx, factory, 0, 0, 0, <<>>, TRUE).err
                    /\ calls' = <<>>
                    /\ factory' = factory
                    /\ images' = images]_vars

C7_Witness ==
    /\ ret.op = "solid"
    /\ ret.status = "Ok"
    /\ ret.args.size = MaxDim
    /\ images[ret.self].width = MaxDim
    /\ Len(factory[images[ret.self].texture_handle].data) = MaxDim * MaxDim * 4

(* C10: Image::new hands from_rgba8 the decoded width and height modulo    *)
(* 2^16 and the whole decoded buffer; it never returns an Image whose      *)
(* width or height differs from the decoded ones, and a decoded dimension  *)
(* above 65535 always ends in a ResourceLoadError without an allocation.   *)
C10_NewNarrowing ==
    [][(ret'.op = "new" /\ ret'.args.outcome = "ok") =>
         LET W == ret'.args.width
             H == ret'.args.height
         IN  /\ (ret'.status = "Ok") =>
                    /\ images'[ret'.self].width = W
                    /\ images'[ret'.self].height = H
             /\ (W > 65535 \/ H > 65535) =>
                    /\ ret'.status = "Err"
                    /\ ret'.err.kind = "ResourceLoadError"
                    /\ calls' = <<>>
                    /\ factory' = factory
                    /\ images' = images
             /\ (ret'.err.kind = "ResourceLoadError") =>
                    /\ ret'.err.msg.args[1] = W % 65536
                    /\ ret'.err.msg.args[2] = H % 65536
                    /\ Len(ret'.err.msg.args) = 4 => ret'.err.msg.args[3] = W * H * 4]_vars

C10_Witness ==
    /\ ret.op = "new"
    /\ ret.args.outcome = "ok"
    /\ ret.args.width > 65535
    /\ ret.args.width % 65536 > 0
    /\ ret.args.height > 0
    /\ ret.status = "Err"
    /\ ret.err.kind = "ResourceLoadError"
    /\ Len(ret.err.msg.args) = 4

---------------------------------------------------------------------------
(* Properties of readback (checked under Spec) *)

(* C5: a successful to_rgba8 returns the bytes the Image was built from,   *)
(* top row first, for every image size and every render-target size.       *)
C5_RoundTrip ==
    (ret.op = "to_rgba8" /\ ret.status = "Ok") =>
        ret.data = factory[images[ret.self].texture_handle].data

(* C6: to_rgba8 returns an error or exactly width*height*4 bytes, width    *)
(* and height being the Image's own, whatever the render target's size.    *)
C6_FullImageOrError ==
    (ret.op = "to_rgba8") =>
        \/ ret.status = "Err"
        \/ Len(ret.data) = images[ret.self].width * images[ret.self].height * 4

---------------------------------------------------------------------------
(* Properties of the draw path (checked under SpecDraw) *)

(* C3: after draw_ex on an Image whose explicit blend mode differs from    *)
(* the context's active one, the context's active blend mode is what it    *)
(* was before the call, whether or not the draw call succeeded.            *)
C3_BlendModeRestored ==
    [][(/\ ret'.op = "draw_ex"
        /\ images[ret'.self].blend_mode # None
        /\ images[ret'.self].blend_mode # gfx.blend_mode) =>
         gfx'.blend_mode = gfx.blend_mode]_vars

(* C4: draw_ex on an Image with no explicit blend mode, or with the        *)
(* context's active one, issues no set_blend_mode and leaves the active    *)
(* blend mode as it was, on success and on every error.                    *)
C4_NoSwitchNoChange ==
    [][(/\ ret'.op = "draw_ex"
        /\ \/ images[ret'.self].blend_mode = None
           \/ images[ret'.self].blend_mode = gfx.blend_mode) =>
         /\ \A k \in 1..Len(calls') : calls'[k].fn # "set_blend_mode"
         /\ gfx'.blend_mode = gfx.blend_mode]_vars

C4_Witness ==
    /\ ret.op = "draw_ex"
    /\ ret.status = "Ok"
    /\ images[ret.self].blend_mode # None
    /\ images[ret.self].blend_mode = gfx.blend_mode
    /\ CallNames(calls) = <<"update_instance_properties", "get_or_insert", "draw">>

(* C9: draw_ex stops at its first failing call and returns that call's     *)
(* error: a failed instance upload leaves the whole render context as it   *)
(* was (no sampler inserted, nothing bound) and is the only call issued; a *)
(* failed switch to the image's blend mode is not followed by a draw call; *)
(* a successful draw_ex issues upload, get_or_insert, [set_blend_mode,]    *)
(* draw, [set_blend_mode] in this order, with the quad and the image's     *)
(* texture and sampler bound.                                              *)
C9_AbandonedAtFirstFailure ==
    [][(ret'.op = "draw_ex") =>
         LET names == CallNames(calls')
             last == calls'[Len(calls')]
             img == images[ret'.self]
             long == <<"update_instance_properties", "get_or_insert",
                       "set_blend_mode", "draw", "set_blend_mode">>
             short == <<"update_instance_properties", "get_or_insert", "draw">>
         IN  /\ Len(names) > 0
             /\ \/ names = SubSeq(long, 1, Len(names))
                \/ names = SubSeq(short, 1, Len(names))
             /\ \A k \in 1..(Len(names) - 1) : calls'[k].ok
             /\ (ret'.status = "Ok") <=> last.ok
             /\ (~last.ok) => ret'.err = BackendError(last.fn)
             /\ (~calls'[1].ok) =>
                    /\ names = <<"update_instance_properties">>
                    /\ ret'.err = BackendError("update_instance_properties")
                    /\ gfx' = gfx
             /\ (Len(names) > 1) =>
                    /\ img.sampler_info \in gfx'.samplers
                    /\ gfx'.vbuf = "quad_vertex_buffer"
                    /\ gfx'.tex = <<img.texture, img.sampler_info>>
             /\ (Len(names) >= 3 /\ names[3] = "set_blend_mode" /\ ~calls'[3].ok) =>
                    /\ Len(names) = 3
                    /\ gfx'.blend_mode = gfx.blend_mode
             /\ (ret'.status = "Ok") => names \in {long, short}]_vars

C9_Witness ==
    /\ ret.op = "draw_ex"
    /\ ret.err = BackendError("update_instance_properties")
    /\ Len(calls) = 1
    /\ ~calls[1].ok
    /\ gfx.samplers = {}
    /\ gfx.vbuf = None
    /\ images[ret.self].blend_mode # None
    /\ images[ret.self].blend_mode # gfx.blend_mode

---------------------------------------------------------------------------
(* Properties of clones (checked under SpecClone) *)

(* C8: each of set_filter, set_wrap, set_blend_mode changes only its own   *)
(* field of the Image it is called on; to_rgba8 changes no Image; every    *)
(* other Image value keeps its sampler_info and blend_mode; all clones     *)
(* refer to the same texture and keep the width and height of              *)
(* construction.                                                           *)
C8_ValueFields ==
    [][/\ \A i \in Slots : (images[i] # NoImage) =>
            IF i # ret'.self \/ ret'.op \in {"to_rgba8", "draw_ex"}
            THEN images'[i] = images[i]
            ELSE /\ images'[i].width = images[i].width
                 /\ images'[i].height = images[i].height
                 /\ images'[i].texture = images[i].texture
                 /\ images'[i].texture_handle = images[i].texture_handle
                 /\ (ret'.op = "set_filter") =>
                        /\ images'[i].sampler_info.wrap_mode = images[i].sampler_info.wrap_mode
                        /\ images'[i].blend_mode = images[i].blend_mode
                 /\ (ret'.op = "set_wrap") =>
                        /\ images'[i].sampler_info.filter = images[i].sampler_info.filter
                        /\ images'[i].blend_mode = images[i].blend_mode
                 /\ (ret'.op = "set_blend_mode") =>
                        images'[i].sampler_info = images[i].sampler_info
       /\ \A i \in Slots : (images'[i] # NoImage) =>
            /\ images'[i].texture = images'[1].texture
            /\ images'[i].texture_handle = images'[1].texture_handle
            /\ images'[i].width = images'[1].width
            /\ images'[i].height = images'[1].height
       /\ images'[1] # NoImage
       /\ factory' = factory]_vars

C8_Witness ==
    /\ ret.op = "set_filter"
    /\ images[1] # NoImage
    /\ images[2] # NoImage
    /\ images[1].sampler_info.filter # images[2].sampler_info.filter
    /\ images[1].sampler_info.wrap_mode # images[2].sampler_info.wrap_mode
    /\ images[1].blend_mode # images[2].blend_mode
    /\ images[1].texture = images[2].texture
====
